---- MODULE Spec2Model ----
(***************************************************************************)
(* Model of the load-generation engine of brutal (src/main.go):            *)
(* LoadTester.RunWithTUI (the dispatcher and its task goroutines),         *)
(* LoadTester.makeRequest (the outcomes it can return),                    *)
(* LoadTester.calculateStats (the reducer) and the goroutine of main that  *)
(* runs RunWithTUI, closes the update channel and drains it.               *)
(***************************************************************************)
EXTENDS Integers, Sequences, FiniteSets, Bags, TLC

(* ------------------------------ bounds -------------------------------- *)

\* Largest Config.Requests (-n) of a modelled run.
MaxRequests == 2

\* Largest Config.Concurrent (-c) of a modelled run.
MaxConcurrent == 2

\* Capacity of the update channel. main.go makes it with 100 slots; the
\* model scales it down so that a run of MaxRequests requests can fill it.
ChanCap == 1

\* Largest wall-clock duration of a run (in clock units, at least 1).
MaxTotalTime == 1

\* Largest number of Results in a sink handed to the reducer on its own.
MaxSinkLen == 3

\* Largest sink size for which the percentile indices are computed on their
\* own.
MaxIndexedLen == 200

\* Largest number of messages handed to model.Update on its own.
MaxUpdates == 3

\* Largest latency (in clock units) of a Result handed to the reducer on its
\* own; the smallest is 0 (time.Since can return 0 on a coarse clock).
MaxLatency == 2

\* The number of times main calls RunWithTUI on its LoadTester: the run
\* proper (line 692) and, with -output, a second run (line 725).
MainRuns == 2

VARIABLES
    config,       \* lt.config: [Requests, Concurrent]
    cancellable,  \* FALSE: ctx is context.Background() (main without TUI);
                  \* TRUE: ctx comes from context.WithCancel
    run,          \* which call of RunWithTUI on the LoadTester this is
    model,        \* the model m of the TUI program (state, total,
                  \* completed, stats, liveStats)
    listener,     \* the command that listens on the update channel for
                  \* the TUI: "none", "waiting" or "done"
    ctxDone,      \* ctx.Done() is closed
    pc,           \* position of the goroutine that runs RunWithTUI
    i,            \* loop variable of the launch loop
    totalTime,    \* RunWithTUI's local totalTime
    stats,        \* RunWithTUI's local stats (the value it returns)
    wg,           \* counter of the sync.WaitGroup
    semaphore,    \* number of elements buffered in the semaphore channel
    tasks,        \* the live task goroutines: a bag of their local states
                  \* [pc, result, currentCompleted, calls]
    invoked,      \* number of makeRequest calls of this run (history)
    liveStats,    \* the LiveStats of the run (without its lock)
    liveStatsMu,  \* liveStats.mu is locked
    results,      \* lt.results
    mu,           \* lt.mu is locked
    completed,    \* the completed counter
    progressMu,   \* progressMu is locked
    updateChan,   \* messages buffered in the update channel
    closed,       \* the update channel has been closed
    received      \* messages the observer has taken from the channel

caller == <<config, cancellable, run, model, listener>>
control == <<pc, i, totalTime, stats>>
permits == <<wg, semaphore>>
live == <<liveStats, liveStatsMu>>
sink == <<results, mu>>
progress == <<completed, progressMu>>
channel == <<updateChan, closed, received>>

vars == <<caller, ctxDone, control, permits, tasks, invoked, live, sink,
          progress, channel>>

(* ------------------------------ values -------------------------------- *)

\* Values of -n and -c: flag.Int accepts any integer, main does not validate.
RequestCounts == 0..MaxRequests
ConcurrentValues == (-1)..MaxConcurrent

\* The Result values makeRequest can return.
\* Lines 164-167 and 179-184: http.NewRequest or httpClient.Do failed; the
\* Result has the zero StatusCode and ContentSize.
SendFailures(latencies) ==
    {[StatusCode |-> 0, ResponseTime |-> rt, ContentSize |-> 0, Error |-> TRUE] :
        rt \in latencies}

\* Lines 188-195: io.ReadAll failed; the Result has the response's status and
\* the zero ContentSize.
ReadFailures(statuses, latencies) ==
    {[StatusCode |-> sc, ResponseTime |-> rt, ContentSize |-> 0, Error |-> TRUE] :
        sc \in statuses, rt \in latencies}

\* Lines 197-201: the Result has the response's status and the length of
\* the body.
Successes(statuses, latencies, sizes) ==
    {[StatusCode |-> sc, ResponseTime |-> rt, ContentSize |-> n, Error |-> FALSE] :
        sc \in statuses, rt \in latencies, n \in sizes}

MakeRequestResults(statuses, latencies, sizes) ==
    SendFailures(latencies) \cup ReadFailures(statuses, latencies)
        \cup Successes(statuses, latencies, sizes)

\* What the network does to one request: `failed` tells whether building or
\* sending the request failed ("send"), the response came but its body could
\* not be read ("read"), or nothing failed ("none"); status is the status
\* code of the response and size the length of its body (both without
\* meaning when no response came), latency the time until Do returned.
RequestOutcomes(failures, statuses, latencies, sizes) ==
    [failed : failures, status : statuses, latency : latencies, size : sizes]

\* Mutant of makeRequest: when the body cannot be read the Result keeps the
\* length of the body and no error.
makeRequestIgnoresReadError(o) ==
    IF o.failed = "send"
    THEN [StatusCode |-> 0, ResponseTime |-> o.latency, ContentSize |-> 0,
          Error |-> TRUE]
    ELSE [StatusCode |-> o.status, ResponseTime |-> o.latency,
          ContentSize |-> o.size, Error |-> FALSE]

\* Lines 156-202: the Result of a request whose outcome is o.
makeRequest(o) ==
    IF o.failed = "send"
    THEN [StatusCode |-> 0, ResponseTime |-> o.latency, ContentSize |-> 0,
          Error |-> TRUE]
    ELSE IF o.failed = "read"
    THEN [StatusCode |-> o.status, ResponseTime |-> o.latency,
          ContentSize |-> 0, Error |-> TRUE]
    ELSE [StatusCode |-> o.status, ResponseTime |-> o.latency,
          ContentSize |-> o.size, Error |-> FALSE]

\* Outcomes of the requests of a modelled run: the connection fails, or a
\* response with a body arrives.
RunOutcomes ==
    RequestOutcomes({"send"}, {200}, {1}, {1})
        \cup RequestOutcomes({"none"}, {200}, {2}, {1})

RunResults == {makeRequest(o) : o \in RunOutcomes}

\* The Results of a sink handed to the reducer on its own: every kind of
\* Result makeRequest returns, with a status below and above 400, an error
\* with and without a status, and latencies from 0.
SinkOutcomes ==
    RequestOutcomes({"send", "read", "none"}, {200}, 0..MaxLatency, {3})
        \cup RequestOutcomes({"none"}, {500}, 0..MaxLatency, {3})

SinkResults == {makeRequest(o) : o \in SinkOutcomes}

\* The contents lt.results can have when the reducer runs.
SinkContents == UNION {[1..n -> SinkResults] : n \in 0..MaxSinkLen}

\* The zero Result (a task's result before makeRequest has returned).
ZeroResult == [StatusCode |-> 0, ResponseTime |-> 0, ContentSize |-> 0, Error |-> FALSE]

(* --------------------------- pure helpers ----------------------------- *)

\* m[k]++ on a Go map[int]int (a missing key reads as 0).
Increment(m, k) ==
    IF k \in DOMAIN m THEN [m EXCEPT ![k] = @ + 1] ELSE m @@ (k :> 1)

RECURSIVE SumSeq(_)
SumSeq(s) == IF s = <<>> THEN 0 ELSE Head(s) + SumSeq(Tail(s))

\* Mutant of SortAscending: less is responseTimes[i] > responseTimes[j].
SortDescending(s) == SortSeq(s, LAMBDA a, b : a > b)

\* sort.Slice(responseTimes, less) with less(i, j) = responseTimes[i] < responseTimes[j].
SortAscending(s) == SortSeq(s, LAMBDA a, b : a < b)

\* The merge of one Result into the LiveStats (the body of the critical
\* section under liveStats.mu).
LiveMerge(ls, r) ==
    [ls EXCEPT
        !.successful = IF ~r.Error THEN @ + 1 ELSE @,
        !.totalBytes = IF ~r.Error THEN @ + r.ContentSize ELSE @,
        !.failed = IF r.Error THEN @ + 1 ELSE @,
        !.statusCodes = Increment(@, r.StatusCode),
        !.responseTimes = Append(@, r.ResponseTime),
        !.minResponseTime =
            IF @ = 0 \/ r.ResponseTime < @ THEN r.ResponseTime ELSE @,
        !.maxResponseTime =
            IF r.ResponseTime > @ THEN r.ResponseTime ELSE @]

\* The merges of the Results rs, one after the other.
RECURSIVE LiveLoop(_, _)
LiveLoop(ls, rs) ==
    IF rs = <<>> THEN ls ELSE LiveLoop(LiveMerge(ls, Head(rs)), Tail(rs))

\* The LiveStats RunWithTUI creates.
NewRunLiveStats ==
    [successful |-> 0, failed |-> 0, totalBytes |-> 0, responseTimes |-> <<>>,
     statusCodes |-> <<>>, minResponseTime |-> 0, maxResponseTime |-> 0]

\* The Stats calculateStats starts from.
InitialStats(rs, tt) ==
    [TotalRequests |-> Len(rs), SuccessfulReqs |-> 0, FailedReqs |-> 0,
     TotalTime |-> tt, MinResponseTime |-> 0, MaxResponseTime |-> 0,
     AvgResponseTime |-> 0, ResponseTimes |-> <<>>, StatusCodes |-> <<>>,
     TotalBytes |-> 0, RequestsPerSec |-> [num |-> 0, den |-> 1],
     Percentiles |-> <<>>]

\* Mutant of StatsStep: the bytes of a Result are added when its status is
\* 200, instead of when it has no error.
StatsStepBytesOfOK(s, r) ==
    [s EXCEPT
        !.SuccessfulReqs = IF ~r.Error THEN @ + 1 ELSE @,
        !.TotalBytes = IF r.StatusCode = 200 THEN @ + r.ContentSize ELSE @,
        !.FailedReqs = IF r.Error THEN @ + 1 ELSE @,
        !.StatusCodes = Increment(@, r.StatusCode),
        !.ResponseTimes = Append(@, r.ResponseTime),
        !.MinResponseTime =
            IF @ = 0 \/ r.ResponseTime < @ THEN r.ResponseTime ELSE @,
        !.MaxResponseTime =
            IF r.ResponseTime > @ THEN r.ResponseTime ELSE @]

\* Mutant of StatsStep: a Result with an error is counted under status 0 in
\* the histogram, whatever its status.
StatsStepErrorsUnderZero(s, r) ==
    [s EXCEPT
        !.SuccessfulReqs = IF ~r.Error THEN @ + 1 ELSE @,
        !.TotalBytes = IF ~r.Error THEN @ + r.ContentSize ELSE @,
        !.FailedReqs = IF r.Error THEN @ + 1 ELSE @,
        !.StatusCodes = Increment(@, IF r.Error THEN 0 ELSE r.StatusCode),
        !.ResponseTimes = Append(@, r.ResponseTime),
        !.MinResponseTime =
            IF @ = 0 \/ r.ResponseTime < @ THEN r.ResponseTime ELSE @,
        !.MaxResponseTime =
            IF r.ResponseTime > @ THEN r.ResponseTime ELSE @]

\* Mutant of StatsStep: a Result counts as failed when its status is 400 or
\* more, or 0, instead of when its Error is set.
StatsStepByStatus(s, r) ==
    [s EXCEPT
        !.SuccessfulReqs =
            IF r.StatusCode \in 1..399 THEN @ + 1 ELSE @,
        !.TotalBytes = IF ~r.Error THEN @ + r.ContentSize ELSE @,
        !.FailedReqs =
            IF r.StatusCode \notin 1..399 THEN @ + 1 ELSE @,
        !.StatusCodes = Increment(@, r.StatusCode),
        !.ResponseTimes = Append(@, r.ResponseTime),
        !.MinResponseTime =
            IF @ = 0 \/ r.ResponseTime < @ THEN r.ResponseTime ELSE @,
        !.MaxResponseTime =
            IF r.ResponseTime > @ THEN r.ResponseTime ELSE @]

\* One iteration of calculateStats' loop over lt.results; ResponseTimes holds
\* the local slice responseTimes while the loop runs.
StatsStep(s, r) ==
    [s EXCEPT
        !.SuccessfulReqs = IF ~r.Error THEN @ + 1 ELSE @,
        !.TotalBytes = IF ~r.Error THEN @ + r.ContentSize ELSE @,
        !.FailedReqs = IF r.Error THEN @ + 1 ELSE @,
        !.StatusCodes = Increment(@, r.StatusCode),
        !.ResponseTimes = Append(@, r.ResponseTime),
        !.MinResponseTime =
            IF @ = 0 \/ r.ResponseTime < @ THEN r.ResponseTime ELSE @,
        !.MaxResponseTime =
            IF r.ResponseTime > @ THEN r.ResponseTime ELSE @]

RECURSIVE StatsLoop(_, _)
StatsLoop(s, rs) ==
    IF rs = <<>> THEN s ELSE StatsLoop(StatsStep(s, Head(rs)), Tail(rs))

\* The index calculateStats reads the sorted latencies at for percentile p
\* (0-based, as in the source).
PercentileIndex(n, p) == (n * p) \div 100

\* Mutant of StatsFinish: without Results the percentile map is filled with
\* zeros instead of being left nil.
StatsFinishZeroFilled(s) ==
    LET n == Len(s.ResponseTimes)
        sorted == SortAscending(s.ResponseTimes)
    IN  [s EXCEPT
            !.AvgResponseTime = IF n > 0 THEN SumSeq(s.ResponseTimes) \div n ELSE 0,
            !.ResponseTimes = sorted,
            !.RequestsPerSec =
                IF n > 0 THEN [num |-> s.TotalRequests, den |-> s.TotalTime] ELSE @,
            !.Percentiles =
                [p \in {50, 90, 95, 99} |->
                    IF n > 0 THEN sorted[PercentileIndex(n, p) + 1] ELSE 0]]

\* Mutant of StatsFinish: a percentile is interpolated halfway between the
\* element at its index and the next one.
StatsFinishInterpolated(s) ==
    IF Len(s.ResponseTimes) > 0
    THEN LET n == Len(s.ResponseTimes)
             sorted == SortAscending(s.ResponseTimes)
             at(k) == sorted[IF k > n THEN n ELSE k]
         IN  [s EXCEPT
                !.AvgResponseTime = SumSeq(s.ResponseTimes) \div n,
                !.ResponseTimes = sorted,
                !.RequestsPerSec = [num |-> s.TotalRequests, den |-> s.TotalTime],
                !.Percentiles =
                    [p \in {50, 90, 95, 99} |->
                        (at(PercentileIndex(n, p) + 1)
                            + at(PercentileIndex(n, p) + 2)) \div 2]]
    ELSE s

\* The part of calculateStats after the loop. RequestsPerSec is the float
\* quotient TotalRequests / totalTime.Seconds(), kept as a fraction.
StatsFinish(s) ==
    IF Len(s.ResponseTimes) > 0
    THEN LET n == Len(s.ResponseTimes)
             sorted == SortAscending(s.ResponseTimes)
         IN  [s EXCEPT
                !.AvgResponseTime = SumSeq(s.ResponseTimes) \div n,
                !.ResponseTimes = sorted,
                !.RequestsPerSec = [num |-> s.TotalRequests, den |-> s.TotalTime],
                !.Percentiles =
                    [p \in {50, 90, 95, 99} |-> sorted[PercentileIndex(n, p) + 1]]]
    ELSE s

calculateStats(rs, tt) == StatsFinish(StatsLoop(InitialStats(rs, tt), rs))

\* Mutant of ResultsAfterReduce: the reducer sorts lt.results by latency in
\* place instead of a slice of its own.
ResultsSortedInPlace(rs) ==
    SortSeq(rs, LAMBDA a, b : a.ResponseTime < b.ResponseTime)

\* lt.results when calculateStats has returned: the loop of line 291 reads
\* the Results, responseTimes is a slice of the call's own (lines 288 and
\* 300), and that slice is what sort.Slice reorders.
ResultsAfterReduce(rs) == rs

\* Mutant of completeMsg: the terminal event carries no Stats of the run.
completeMsgWithoutStats(s) == [type |-> "completeMsg", stats |-> InitialStats(<<>>, 0)]

\* Messages on the update channel.
progressMsg(c, r) == [type |-> "progressMsg", completed |-> c, result |-> r]
completeMsg(s) == [type |-> "completeMsg", stats |-> s]

(* ---------------------------- the TUI model --------------------------- *)

\* Lines 356-371: the model of the TUI program before any message. stats is
\* a pointer: <<>> stands for nil, <<s>> for a pointer to the Stats s.
initialModel(cfg) ==
    [state |-> "ready", total |-> cfg.Requests, completed |-> 0,
     stats |-> <<>>, liveStats |-> NewRunLiveStats]

\* The messages of the TUI program other than those of the update channel.
startTestMsg == [type |-> "startTestMsg"]
tickMsg == [type |-> "tickMsg"]

\* Mutant of Update: the model goes back to "running" on a progress event
\* that does not complete the run.
UpdateResumesOnProgress(mm, msg) ==
    IF msg.type = "startTestMsg"
    THEN IF mm.state = "ready" THEN [mm EXCEPT !.state = "running"] ELSE mm
    ELSE IF msg.type = "progressMsg"
    THEN [mm EXCEPT
            !.completed = msg.completed,
            !.liveStats = LiveMerge(@, msg.result),
            !.state = IF msg.completed >= mm.total THEN "completed"
                      ELSE "running"]
    ELSE IF msg.type = "completeMsg"
    THEN [mm EXCEPT !.state = "completed", !.stats = <<msg.stats>>]
    ELSE mm

\* Lines 383-468: the model that model.Update returns for the model mm and
\* the message msg (the clock and the spinner, which only the view reads,
\* are left out).
Update(mm, msg) ==
    IF msg.type = "startTestMsg"
    THEN IF mm.state = "ready" THEN [mm EXCEPT !.state = "running"] ELSE mm
    ELSE IF msg.type = "progressMsg"
    THEN [mm EXCEPT
            !.completed = msg.completed,
            !.liveStats = LiveMerge(@, msg.result),
            !.state = IF msg.completed >= mm.total THEN "completed" ELSE @]
    ELSE IF msg.type = "completeMsg"
    THEN [mm EXCEPT !.state = "completed", !.stats = <<msg.stats>>]
    ELSE mm

\* Lines 392-404: Update starts a run (the goroutine that calls RunWithTUI)
\* and the listener command.
StartsRun(mm, msg) == msg.type = "startTestMsg" /\ mm.state = "ready"

(* ------------------------------- Init --------------------------------- *)

\* The state when main has built the LoadTester (NewLoadTester: lt.results
\* is empty), the context and the update channel, and is about to call
\* RunWithTUI.
Init ==
    /\ config \in [Requests : RequestCounts, Concurrent : ConcurrentValues]
    /\ cancellable \in BOOLEAN
    /\ run = 1
    /\ model = initialModel(config)
    /\ listener = "none"
    /\ ctxDone = FALSE
    /\ pc = "start"
    /\ i = 0
    /\ totalTime = 0
    /\ stats = InitialStats(<<>>, 0)
    /\ wg = 0
    /\ semaphore = 0
    /\ tasks = EmptyBag
    /\ invoked = 0
    /\ liveStats = NewRunLiveStats
    /\ liveStatsMu = FALSE
    /\ results = <<>>
    /\ mu = FALSE
    /\ completed = 0
    /\ progressMu = FALSE
    /\ updateChan = <<>>
    /\ closed = FALSE
    /\ received = <<>>

(* --------------------- RunWithTUI: the dispatcher ---------------------- *)

\* Lines 206-217: the locals of RunWithTUI. make(chan struct{}, n) panics
\* for n < 0.
Start ==
    /\ pc = "start"
    /\ pc' = IF config.Concurrent < 0 THEN "panic" ELSE "loop"
    /\ UNCHANGED <<caller, ctxDone, i, totalTime, stats, permits, tasks,
                   invoked, live, sink, progress, channel>>

\* Mutant of LoopTest: the dispatcher leaves the loop when ctx is cancelled.
LoopTestStopsOnCancel ==
    /\ pc = "loop"
    /\ IF i < config.Requests /\ ~ctxDone
       THEN /\ wg' = wg + 1
            /\ pc' = "acquire"
       ELSE /\ wg' = wg
            /\ pc' = "wait"
    /\ UNCHANGED <<caller, ctxDone, i, totalTime, stats, semaphore, tasks,
                   invoked, live, sink, progress, channel>>

\* Lines 219-220: the loop test and wg.Add(1); after the last iteration the
\* dispatcher goes on to wg.Wait().
LoopTest ==
    /\ pc = "loop"
    /\ IF i < config.Requests
       THEN /\ wg' = wg + 1
            /\ pc' = "acquire"
       ELSE /\ wg' = wg
            /\ pc' = "wait"
    /\ UNCHANGED <<caller, ctxDone, i, totalTime, stats, semaphore, tasks,
                   invoked, live, sink, progress, channel>>

\* Mutant of CanAcquire: the dispatcher launches in batches, the next task
\* only when every task launched before has released its permit.
CanAcquireWhenAllReleased == semaphore = 0

\* Mutant of CanAcquire: the permit pool is made one permit too large.
CanAcquireOneMore == semaphore <= config.Concurrent

\* The send on the semaphore channel can proceed: the buffer has room (with
\* capacity 0 a send needs a ready receiver, and there is none while the
\* dispatcher is at the send).
CanAcquire == semaphore < config.Concurrent

\* The local state of a task goroutine that the go statement has started.
NewTask ==
    [pc |-> "request", result |-> ZeroResult, currentCompleted |-> 0, calls |-> 0]

\* Lines 221-223 and the loop's i++: the send on the semaphore channel and
\* the go statement.
Launch ==
    /\ pc = "acquire"
    /\ CanAcquire
    /\ semaphore' = semaphore + 1
    /\ tasks' = tasks (+) SetToBag({NewTask})
    /\ i' = i + 1
    /\ pc' = "loop"
    /\ UNCHANGED <<caller, ctxDone, totalTime, stats, wg, invoked, live, sink,
                   progress, channel>>

\* Mutant of WaitReturns: wg.Add is not called, wg.Wait() returns at once.
WaitReturnsAtOnce == TRUE

\* Mutant of WaitReturns: the dispatcher waits for the completed counter
\* instead of the wait group.
WaitReturnsOnCount == completed = config.Requests

\* wg.Wait() can return.
WaitReturns == wg = 0

\* Lines 266-267: wg.Wait() and the measurement of totalTime.
Wait ==
    /\ pc = "wait"
    /\ WaitReturns
    /\ totalTime' \in 1..MaxTotalTime
    /\ pc' = "calc"
    /\ UNCHANGED <<caller, ctxDone, i, stats, permits, tasks, invoked, live,
                   sink, progress, channel>>

\* Line 269: stats := lt.calculateStats(totalTime) (reads lt.results without
\* taking lt.mu).
Calc ==
    /\ pc = "calc"
    /\ stats' = calculateStats(results, totalTime)
    /\ results' = ResultsAfterReduce(results)
    /\ pc' = "send"
    /\ UNCHANGED <<caller, ctxDone, i, totalTime, permits, tasks, invoked,
                   live, mu, progress, channel>>

\* A send on the update channel can proceed.
CanSend == Len(updateChan) < ChanCap

\* Mutant of DoneReady: the selects have a default case in place of
\* <-ctx.Done().
DoneOrDefault == TRUE

\* Mutant of DoneReady: the sends are plain sends, outside a select.
DoneNeverReady == FALSE

\* A receive from ctx.Done() can proceed (the case <-ctx.Done() of the
\* selects of lines 258-262 and 272-275).
DoneReady == ctxDone

\* Lines 272-273 and 277: the select's send case, then return stats.
SendComplete ==
    /\ pc = "send"
    /\ CanSend
    /\ updateChan' = Append(updateChan, completeMsg(stats))
    /\ pc' = "returned"
    /\ UNCHANGED <<caller, ctxDone, i, totalTime, stats, permits, tasks,
                   invoked, live, sink, progress, closed, received>>

\* Lines 274 and 277: the select's <-ctx.Done() case, then return stats.
SkipComplete ==
    /\ pc = "send"
    /\ DoneReady
    /\ pc' = "returned"
    /\ UNCHANGED <<caller, ctxDone, i, totalTime, stats, permits, tasks,
                   invoked, live, sink, progress, channel>>

\* Mutant of CloseChan: the channel is closed when the reducer has run,
\* before the terminal event is sent.
CloseChanBeforeSend ==
    /\ pc = "send"
    /\ ~closed
    /\ closed' = TRUE
    /\ pc' = pc
    /\ UNCHANGED <<caller, ctxDone, i, totalTime, stats, permits, tasks,
                   invoked, live, sink, progress, updateChan, received>>

\* The deferred close(updateChan) of the goroutine that called RunWithTUI
\* (lines 402, 691, 724), run when RunWithTUI has returned.
CloseChan ==
    /\ pc = "returned"
    /\ closed' = TRUE
    /\ pc' = "exit"
    /\ UNCHANGED <<caller, ctxDone, i, totalTime, stats, permits, tasks,
                   invoked, live, sink, progress, updateChan, received>>

(* ------------------- RunWithTUI: the task goroutines ------------------- *)

\* The task goroutines are anonymous closures without an identity of their
\* own: `tasks` holds the local state of each one that has been started and
\* has not ended. A step of the task in state e leaves it in state f.
Moved(e, f) == (tasks (-) SetToBag({e})) (+) SetToBag({f})

\* Mutant of AfterMakeRequest: the task appends its Result without merging
\* it into the LiveStats.
AppendsWithoutMerge(r) == "sinkLock"

\* Mutant of AfterMakeRequest: a request that ended in an error is made again.
RetryOnError(r) == IF r.Error THEN "request" ELSE "liveLock"

\* Lines 227-230: whatever Result makeRequest returned, the task goes on to
\* merge it (no retry, no early exit on an error).
AfterMakeRequest(r) == "liveLock"

\* Line 227: result := lt.makeRequest() returns one of its Results.
MakeRequest(e) ==
    /\ e.pc = "request"
    /\ \E r \in RunResults :
          tasks' = Moved(e, [e EXCEPT !.pc = AfterMakeRequest(r),
                                      !.result = r,
                                      !.calls = @ + 1])
    /\ invoked' = invoked + 1
    /\ UNCHANGED <<caller, ctxDone, control, permits, live, sink, progress,
                   channel>>

\* Line 230: liveStats.mu.Lock().
LiveLock(e) ==
    /\ e.pc = "liveLock"
    /\ ~liveStatsMu
    /\ liveStatsMu' = TRUE
    /\ tasks' = Moved(e, [e EXCEPT !.pc = "liveMerge"])
    /\ UNCHANGED <<caller, ctxDone, control, permits, invoked, liveStats, sink,
                   progress, channel>>

\* Lines 231-246: the merge into liveStats and liveStats.mu.Unlock().
LiveUpdate(e) ==
    /\ e.pc = "liveMerge"
    /\ liveStats' = LiveMerge(liveStats, e.result)
    /\ liveStatsMu' = FALSE
    /\ tasks' = Moved(e, [e EXCEPT !.pc = "sinkLock"])
    /\ UNCHANGED <<caller, ctxDone, control, permits, invoked, sink, progress,
                   channel>>

\* Line 248: lt.mu.Lock().
SinkLock(e) ==
    /\ e.pc = "sinkLock"
    /\ ~mu
    /\ mu' = TRUE
    /\ tasks' = Moved(e, [e EXCEPT !.pc = "sinkAppend"])
    /\ UNCHANGED <<caller, ctxDone, control, permits, invoked, live, results,
                   progress, channel>>

\* Lines 249-250: lt.results = append(lt.results, result) and lt.mu.Unlock().
SinkAppend(e) ==
    /\ e.pc = "sinkAppend"
    /\ results' = Append(results, e.result)
    /\ mu' = FALSE
    /\ tasks' = Moved(e, [e EXCEPT !.pc = "progressLock"])
    /\ UNCHANGED <<caller, ctxDone, control, permits, invoked, live, progress,
                   channel>>

\* Line 252: progressMu.Lock().
ProgressLock(e) ==
    /\ e.pc = "progressLock"
    /\ ~progressMu
    /\ progressMu' = TRUE
    /\ tasks' = Moved(e, [e EXCEPT !.pc = "progressInc"])
    /\ UNCHANGED <<caller, ctxDone, control, permits, invoked, live, sink,
                   completed, channel>>

\* Mutant of ProgressInc: currentCompleted is read before the increment.
ProgressIncReadsFirst(e) ==
    /\ e.pc = "progressInc"
    /\ completed' = completed + 1
    /\ progressMu' = FALSE
    /\ tasks' = Moved(e, [e EXCEPT !.pc = "publish",
                                   !.currentCompleted = completed])
    /\ UNCHANGED <<caller, ctxDone, control, permits, invoked, live, sink,
                   channel>>

\* Mutant of ProgressInc: progressMu is unlocked after the select, so the
\* task holds it while it publishes.
ProgressIncKeepsLock(e) ==
    /\ e.pc = "progressInc"
    /\ completed' = completed + 1
    /\ progressMu' = TRUE
    /\ tasks' = Moved(e, [e EXCEPT !.pc = "publish",
                                   !.currentCompleted = completed + 1])
    /\ UNCHANGED <<caller, ctxDone, control, permits, invoked, live, sink,
                   channel>>

\* Lines 253-255: completed++, currentCompleted := completed and
\* progressMu.Unlock().
ProgressInc(e) ==
    /\ e.pc = "progressInc"
    /\ completed' = completed + 1
    /\ progressMu' = FALSE
    /\ tasks' = Moved(e, [e EXCEPT !.pc = "publish",
                                   !.currentCompleted = completed + 1])
    /\ UNCHANGED <<caller, ctxDone, control, permits, invoked, live, sink,
                   channel>>

\* Mutant of Leaving: the permit is given back by a statement the task does
\* not reach, and only wg.Done() is deferred.
LeavingWithoutRelease(e) ==
    [e EXCEPT !.pc = "wgDone", !.result = ZeroResult, !.currentCompleted = 0]

\* The task's state when the select of lines 258-262 is over: the deferred
\* calls are left to run; result and currentCompleted are dead.
Leaving(e) ==
    [e EXCEPT !.pc = "release", !.result = ZeroResult, !.currentCompleted = 0]

\* Lines 258-259: the select's send case.
Publish(e) ==
    /\ e.pc = "publish"
    /\ CanSend
    /\ updateChan' = Append(updateChan, progressMsg(e.currentCompleted, e.result))
    /\ tasks' = Moved(e, Leaving(e))
    /\ UNCHANGED <<caller, ctxDone, control, permits, invoked, live, sink,
                   progress, closed, received>>


\* Lines 260-261: the select's <-ctx.Done() case.
Abandon(e) ==
    /\ e.pc = "publish"
    /\ DoneReady
    /\ tasks' = Moved(e, Leaving(e))
    /\ UNCHANGED <<caller, ctxDone, control, permits, invoked, live, sink,
                   progress, channel>>

\* Mutant of AfterRelease: the deferred receive is missing.
PermitLeaked == semaphore

\* The semaphore channel's buffer after the receive of line 225.
AfterRelease == semaphore - 1

\* Line 225: the deferred <-semaphore (deferred last, so run first).
Release(e) ==
    /\ e.pc = "release"
    /\ semaphore' = AfterRelease
    /\ tasks' = Moved(e, [e EXCEPT !.pc = "wgDone"])
    /\ UNCHANGED <<caller, ctxDone, control, wg, invoked, live, sink, progress,
                   channel>>

\* Line 224: the deferred wg.Done(); the goroutine ends.
WgDone(e) ==
    /\ e.pc = "wgDone"
    /\ wg' = wg - 1
    /\ tasks' = tasks (-) SetToBag({e})
    /\ UNCHANGED <<caller, ctxDone, control, semaphore, invoked, live, sink,
                   progress, channel>>

(* --------------------------- the environment --------------------------- *)

\* The owner of a ctx made by context.WithCancel cancels it (main.go's TUI
\* goroutine defers cancel(), line 401; another caller of RunWithTUI may
\* cancel at any time).
Cancel ==
    /\ cancellable
    /\ ~ctxDone
    /\ ctxDone' = TRUE
    /\ UNCHANGED <<caller, control, permits, tasks, invoked, live, sink,
                   progress, channel>>

\* The observer's `for msg := range updateChan` takes the next message
\* (lines 696, 729, 410).
Receive ==
    /\ updateChan # <<>>
    /\ received' = Append(received, Head(updateChan))
    /\ updateChan' = Tail(updateChan)
    /\ UNCHANGED <<caller, ctxDone, control, permits, tasks, invoked, live,
                   sink, progress, closed>>

\* The observer's loop over the channel has ended.
ObserverDone == closed /\ updateChan = <<>>

\* Lines 717-726: main, run without TUI and with -output, calls RunWithTUI a
\* second time on the same LoadTester, with a new context and a new channel;
\* lt.results and lt.mu are those of the first run.
Rerun ==
    /\ ~cancellable
    /\ run < MainRuns
    /\ pc = "exit"
    /\ ObserverDone
    /\ run' = run + 1
    /\ pc' = "start"
    /\ i' = 0
    /\ totalTime' = 0
    /\ stats' = InitialStats(<<>>, 0)
    /\ wg' = 0
    /\ semaphore' = 0
    /\ invoked' = 0
    /\ liveStats' = NewRunLiveStats
    /\ liveStatsMu' = FALSE
    /\ completed' = 0
    /\ progressMu' = FALSE
    /\ updateChan' = <<>>
    /\ closed' = FALSE
    /\ received' = <<>>
    /\ UNCHANGED <<config, cancellable, model, listener, ctxDone, tasks, sink>>

(* ------------------------------- Next ---------------------------------- *)

Dispatcher ==
    \/ Start
    \/ LoopTest
    \/ Launch
    \/ Wait
    \/ Calc
    \/ SendComplete
    \/ SkipComplete
    \/ CloseChan

TaskStep(e) ==
    \/ MakeRequest(e)
    \/ LiveLock(e)
    \/ LiveUpdate(e)
    \/ SinkLock(e)
    \/ SinkAppend(e)
    \/ ProgressLock(e)
    \/ ProgressInc(e)
    \/ Publish(e)
    \/ Abandon(e)
    \/ Release(e)
    \/ WgDone(e)

TaskSteps == \E e \in BagToSet(tasks) : TaskStep(e)

Next ==
    \/ Dispatcher
    \/ TaskSteps
    \/ Cancel
    \/ Receive
    \/ Rerun

Spec == Init /\ [][Next]_vars

\* The Go scheduler runs every goroutine that can take a step, and every
\* makeRequest call returns (the http.Client has a Timeout); the observer
\* and the owner of ctx are free to stop.
FairSpec == Spec /\ WF_vars(Dispatcher) /\ WF_vars(TaskSteps)

\* As FairSpec, with an observer that keeps taking messages from the
\* update channel (main's loops over the channel).
ObservedSpec == FairSpec /\ WF_vars(Receive)

(* ------------------------ the reducer on its own ---------------------- *)

\* The progress events of a run made with one permit whose Results are rs.
ProgressEvents(rs) == [k \in 1..Len(rs) |-> progressMsg(k, rs[k])]

\* The state at the join barrier of the first run of a LoadTester, made
\* with one permit (so that the Results were merged and appended in the same
\* order) and an observer that took every progress event: lt.results is any
\* of SinkContents and the dispatcher is about to call calculateStats.
ReducerInit ==
    /\ results \in SinkContents
    /\ config = [Requests |-> Len(results), Concurrent |-> 1]
    /\ cancellable = FALSE
    /\ run = 1
    /\ model = initialModel(config)
    /\ listener = "none"
    /\ ctxDone = FALSE
    /\ pc = "calc"
    /\ i = Len(results)
    /\ totalTime \in 1..MaxTotalTime
    /\ stats = InitialStats(<<>>, 0)
    /\ wg = 0
    /\ semaphore = 0
    /\ tasks = EmptyBag
    /\ invoked = Len(results)
    /\ liveStats = LiveLoop(NewRunLiveStats, results)
    /\ liveStatsMu = FALSE
    /\ mu = FALSE
    /\ completed = Len(results)
    /\ progressMu = FALSE
    /\ updateChan = <<>>
    /\ closed = FALSE
    /\ received = ProgressEvents(results)

\* A second call lt.calculateStats(totalTime), made with the same totalTime
\* when the first call has returned.
Recalc ==
    /\ pc = "send"
    /\ stats' = calculateStats(results, totalTime)
    /\ results' = ResultsAfterReduce(results)
    /\ pc' = "recalculated"
    /\ UNCHANGED <<caller, ctxDone, i, totalTime, permits, tasks, invoked,
                   live, mu, progress, channel>>

ReducerNext ==
    \/ Calc
    \/ Recalc

ReducerSpec == ReducerInit /\ [][ReducerNext]_vars

(* --------------------------- the TUI program -------------------------- *)

\* Lines 706-711 and 373-381: main with the TUI has built the model on the
\* LoadTester and started the program; model.Init has emitted its one
\* startTestMsg. No goroutine runs RunWithTUI yet.
TUIInit ==
    /\ config \in [Requests : RequestCounts, Concurrent : ConcurrentValues]
    /\ cancellable = TRUE
    /\ run = 0
    /\ model = initialModel(config)
    /\ listener = "none"
    /\ ctxDone = FALSE
    /\ pc = "idle"
    /\ i = 0
    /\ totalTime = 0
    /\ stats = InitialStats(<<>>, 0)
    /\ wg = 0
    /\ semaphore = 0
    /\ tasks = EmptyBag
    /\ invoked = 0
    /\ liveStats = NewRunLiveStats
    /\ liveStatsMu = FALSE
    /\ results = <<>>
    /\ mu = FALSE
    /\ completed = 0
    /\ progressMu = FALSE
    /\ updateChan = <<>>
    /\ closed = FALSE
    /\ received = <<>>

\* Lines 391-418: Update takes the startTestMsg in state "ready": it makes
\* ctx and the channel, starts the goroutine that runs RunWithTUI and
\* returns the command that listens on the channel.
StartTest ==
    /\ pc = "idle"
    /\ StartsRun(model, startTestMsg)
    /\ model' = Update(model, startTestMsg)
    /\ run' = run + 1
    /\ pc' = "start"
    /\ listener' = "waiting"
    /\ UNCHANGED <<config, cancellable, ctxDone, i, totalTime, stats, permits,
                   tasks, invoked, live, sink, progress, channel>>

\* Lines 408-415, then 420-450: the listener command takes one message from
\* the channel and returns it (`for msg := range updateChan { return msg }`),
\* which ends the command; the program hands the message to Update, whose
\* progressMsg and completeMsg branches return no new listener.
ListenerDelivers ==
    /\ listener = "waiting"
    /\ updateChan # <<>>
    /\ received' = Append(received, Head(updateChan))
    /\ updateChan' = Tail(updateChan)
    /\ model' = Update(model, Head(updateChan))
    /\ listener' = "done"
    /\ UNCHANGED <<config, cancellable, run, ctxDone, control, permits, tasks,
                   invoked, live, sink, progress, closed>>

\* Line 401: the deferred cancel() of the run goroutine, which runs when
\* RunWithTUI has returned and the deferred close has run. Nothing else
\* cancels this ctx.
DeferredCancel ==
    /\ pc = "exit"
    /\ Cancel

\* The steps of the run goroutine under the TUI. Its ctx is not cancelled
\* before it has returned, so the <-ctx.Done() cases of its selects are
\* never ready.
TUIDispatcher ==
    \/ Start
    \/ LoopTest
    \/ Launch
    \/ Wait
    \/ Calc
    \/ SendComplete
    \/ CloseChan
    \/ DeferredCancel

TUITaskStep(e) ==
    \/ MakeRequest(e)
    \/ LiveLock(e)
    \/ LiveUpdate(e)
    \/ SinkLock(e)
    \/ SinkAppend(e)
    \/ ProgressLock(e)
    \/ ProgressInc(e)
    \/ Publish(e)
    \/ Release(e)
    \/ WgDone(e)

TUITaskSteps == \E e \in BagToSet(tasks) : TUITaskStep(e)

TUINext ==
    \/ StartTest
    \/ ListenerDelivers
    \/ TUIDispatcher
    \/ TUITaskSteps

TUISpec == TUIInit /\ [][TUINext]_vars

\* The program delivers the pending startTestMsg and runs its commands, and
\* the Go scheduler runs every goroutine that can take a step.
FairTUISpec ==
    /\ TUISpec
    /\ WF_vars(StartTest)
    /\ WF_vars(ListenerDelivers)
    /\ WF_vars(TUIDispatcher)
    /\ WF_vars(TUITaskSteps)

(* ------------------------ model.Update on its own --------------------- *)

\* Messages the program can hand to model.Update: the start message, a
\* progress event with any count, a terminal event and a tick.
UpdateMessages ==
    {startTestMsg, tickMsg}
        \cup {progressMsg(c, r) : c \in 0..MaxRequests, r \in RunResults}
        \cup {completeMsg(calculateStats(<<>>, 1))}

\* Lines 383-468: the program calls m.Update(msg) with any message, in any
\* state of the model; a startTestMsg taken in "ready" also starts the run
\* goroutine and the listener (lines 396-417). The goroutine's own steps are
\* left out here.
Deliver(msg) ==
    /\ Len(received) < MaxUpdates
    /\ model' = Update(model, msg)
    /\ received' = Append(received, msg)
    /\ IF StartsRun(model, msg)
       THEN /\ run' = run + 1
            /\ pc' = "start"
            /\ listener' = "waiting"
       ELSE UNCHANGED <<run, pc, listener>>
    /\ UNCHANGED <<config, cancellable, ctxDone, i, totalTime, stats, permits,
                   tasks, invoked, live, sink, progress, updateChan, closed>>

UpdateNext == \E msg \in UpdateMessages : Deliver(msg)

UpdateSpec == TUIInit /\ [][UpdateNext]_vars

(* ------------------------- notions of the claims ----------------------- *)

\* RunWithTUI has returned.
RunReturned == pc \in {"returned", "exit"}

\* The number of live tasks whose position is one of pcs.
TasksAt(pcs) ==
    BagCardinality([e \in {x \in BagToSet(tasks) : x.pc \in pcs} |-> tasks[e]])

\* The positions at which a task holds its permit: from the go statement
\* until its deferred <-semaphore has run.
PermitPcs ==
    {"request", "liveLock", "liveMerge", "sinkLock", "sinkAppend",
     "progressLock", "progressInc", "publish", "release"}

\* Every event published so far on the update channel, in channel order.
Published == received \o updateChan

\* The number of terminal events among the events of s.
RECURSIVE Terminals(_)
Terminals(s) ==
    IF s = <<>> THEN 0
    ELSE (IF Head(s).type = "completeMsg" THEN 1 ELSE 0) + Terminals(Tail(s))

(* ------------------------------- claims -------------------------------- *)

\* C1. Concurrency bound: with Concurrent = C >= 1, in every reachable
\* state the number of tasks that hold an acquired, not yet released permit
\* (makeRequest included) is at most C, and so is the number of tasks
\* inside makeRequest.
C1_ConcurrencyBound ==
    config.Concurrent >= 1 =>
        /\ TasksAt(PermitPcs) <= config.Concurrent
        /\ TasksAt({"request"}) <= config.Concurrent
        /\ TasksAt(PermitPcs) = semaphore

\* C1 witness: all C permits are out, a task is inside makeRequest, and the
\* dispatcher waits at the semaphore with a request still to launch.
C1_Witness ==
    /\ config.Concurrent >= 1
    /\ pc = "acquire"
    /\ i < config.Requests
    /\ TasksAt(PermitPcs) = config.Concurrent
    /\ TasksAt({"request"}) >= 1

\* C2. With Concurrent >= 1, one run of RunWithTUI calls makeRequest exactly
\* Requests times: never more than Requests calls, each task calls it once
\* (none before it is at makeRequest, exactly one after, whatever the
\* outcome), and when RunWithTUI returns the calls number Requests.
C2_ExactlyNRequests ==
    config.Concurrent >= 1 =>
        /\ invoked <= config.Requests
        /\ \A e \in BagToSet(tasks) :
              e.calls = IF e.pc = "request" THEN 0 ELSE 1
        /\ invoked = i - TasksAt({"request"})
        /\ RunReturned => invoked = config.Requests

\* C2 witness: a run of MaxRequests requests has returned and one of them
\* ended in an error, another one did not.
C2_Witness ==
    /\ config.Concurrent >= 1
    /\ RunReturned
    /\ run = 1
    /\ config.Requests = MaxRequests
    /\ invoked = MaxRequests
    /\ \E k \in 1..Len(results) : results[k].Error
    /\ \E k \in 1..Len(results) : ~results[k].Error


\* C3. When RunWithTUI returns, lt.results holds exactly Requests entries,
\* whatever Concurrent is.
C3_SinkHasNEntries ==
    RunReturned => Len(results) = config.Requests

\* C4. For Requests = N >= 1 the Stats a run returns has
\* SuccessfulReqs + FailedReqs = TotalRequests = N.
C4_SuccessesPlusFailures ==
    (RunReturned /\ config.Requests >= 1) =>
        /\ stats.SuccessfulReqs + stats.FailedReqs = stats.TotalRequests
        /\ stats.TotalRequests = config.Requests

\* C5. Join barrier: whenever calculateStats runs (and from then on), every
\* one of the N tasks of the run has been launched and has ended, so each
\* has merged into the LiveStats, appended to lt.results (which holds the N
\* Results of each run so far) and counted itself, and nobody holds lt.mu
\* or liveStats.mu while the reducer reads lt.results.
C5_JoinBarrier ==
    pc \in {"calc", "send", "returned", "exit"} =>
        /\ i = config.Requests
        /\ tasks = EmptyBag
        /\ wg = 0
        /\ liveStats.successful + liveStats.failed = config.Requests
        /\ Len(results) = run * config.Requests
        /\ completed = config.Requests
        /\ ~mu
        /\ ~liveStatsMu

\* C5 witness: the reducer is about to run over the Results of a run of
\* MaxRequests requests made with one permit.
C5_Witness ==
    /\ pc = "calc"
    /\ config.Requests = MaxRequests
    /\ config.Concurrent = 1
    /\ Len(results) = MaxRequests

\* C6. Event stream shape: in a run of N requests without cancellation the
\* events published are progress events, at most N of them, followed by at
\* most one terminal event; an observer whose loop over the channel has
\* ended has received exactly N progress events and then exactly one
\* terminal event.
C6_EventStreamShape ==
    ~ctxDone =>
        /\ \A k \in 1..Len(Published) :
              Published[k].type =
                  IF k <= config.Requests THEN "progressMsg" ELSE "completeMsg"
        /\ Len(Published) <= config.Requests + 1
        /\ ObserverDone => Len(received) = config.Requests + 1

\* C6 witness: the observer's loop has ended after MaxRequests progress
\* events and the terminal event, and ctx was never cancelled.
C6_Witness ==
    /\ ~ctxDone
    /\ ObserverDone
    /\ config.Requests = MaxRequests
    /\ Len(received) = MaxRequests + 1
    /\ received[MaxRequests].type = "progressMsg"
    /\ received[MaxRequests + 1].type = "completeMsg"

\* C7. Terminal-event guarantee: with or without cancellation, nothing is
\* published after the terminal event: a terminal event is the last of the
\* events published.
C7_TerminalEventLast ==
    \A k \in 1..Len(Published) :
        Published[k].type = "completeMsg" => k = Len(Published)

\* C7 witness: ctx was cancelled, a task gave up its progress event, and the
\* terminal event was published after a progress event.
C7_Witness ==
    /\ ctxDone
    /\ Len(Published) >= 2
    /\ Len(Published) <= config.Requests
    /\ Published[Len(Published)].type = "completeMsg"

\* C8 as claimed. Every run that reaches the join barrier, cancelled or not,
\* has published exactly one terminal event when it returns, carrying the
\* Stats it returns.
C8_AlwaysOneTerminalEvent ==
    (RunReturned /\ config.Concurrent >= 1) =>
        /\ Terminals(Published) = 1
        /\ \A k \in 1..Len(Published) :
              Published[k].type = "completeMsg" => Published[k].stats = stats

\* C8 as amended. A run that has returned has published at most one
\* terminal event, and exactly one if ctx was not cancelled; a terminal event
\* carries the Stats the run returns, and none is published before the run
\* is past the join barrier.
C8_OneTerminalEventUnlessCancelled ==
    /\ RunReturned =>
          /\ Terminals(Published) <= 1
          /\ ~ctxDone => Terminals(Published) = 1
          /\ \A k \in 1..Len(Published) :
                Published[k].type = "completeMsg" => Published[k].stats = stats
    /\ ~RunReturned => Terminals(Published) = 0

\* C8 witness: a cancelled run of MaxRequests requests has returned and has
\* published its terminal event.
C8_Witness ==
    /\ RunReturned
    /\ ctxDone
    /\ config.Requests = MaxRequests
    /\ Terminals(Published) = 1
    /\ Published[Len(Published)].stats = stats
    /\ stats.TotalRequests = MaxRequests

\* C9. Abandonable publish: once ctx is cancelled, and though no observer
\* need take anything from the update channel, every task waiting at (or
\* later reaching) the publish step goes on, releases its permit and ends;
\* the run reaches the join barrier and RunWithTUI returns.
C9_AbandonablePublish ==
    (ctxDone /\ config.Concurrent >= 1)
        ~> (RunReturned /\ tasks = EmptyBag /\ semaphore = 0 /\ wg = 0)

\* C9 witness: a cancelled run of MaxRequests requests has returned although
\* the observer never took a message: the channel is full of progress events
\* and no terminal event was published.
C9_Witness ==
    /\ ctxDone
    /\ config.Concurrent >= 1
    /\ config.Requests = MaxRequests
    /\ RunReturned
    /\ received = <<>>
    /\ Len(updateChan) = ChanCap
    /\ Terminals(updateChan) = 0
    /\ completed = MaxRequests

\* C10. Termination: for Requests >= 0 and Concurrent >= 1, when every
\* makeRequest returns, the observer keeps taking messages and goroutines
\* are scheduled fairly, RunWithTUI eventually returns with all its tasks
\* ended, all permits released and (ctx not being cancelled) the terminal
\* event published, whatever the capacity of the channel.
C10_Termination ==
    (config.Concurrent >= 1)
        ~> (/\ RunReturned
            /\ i = config.Requests
            /\ tasks = EmptyBag
            /\ semaphore = 0
            /\ wg = 0
            /\ (ctxDone \/ Terminals(Published) = 1))

\* C10 witness: a run that published more events than the channel holds has
\* returned, its terminal event published.
C10_Witness ==
    /\ config.Concurrent >= 1
    /\ ~ctxDone
    /\ RunReturned
    /\ config.Requests = MaxRequests
    /\ Len(Published) = MaxRequests + 1
    /\ Len(Published) > ChanCap
    /\ Terminals(Published) = 1
    /\ tasks = EmptyBag
    /\ semaphore = 0

\* C11. A Config with Concurrent <= 0 is rejected before dispatch: the
\* dispatcher does not fault (make(chan struct{}, n) with n < 0), does not
\* come to wait at the semaphore send (which no receiver will ever match),
\* and has announced no task to the wait group.
C11_NonPositiveConcurrentRejected ==
    config.Concurrent <= 0 =>
        /\ pc # "panic"
        /\ pc # "acquire"
        /\ wg = 0

\* C12. Empty run: with Requests = 0 (and a Concurrent that make accepts)
\* no task is launched and makeRequest is not called; nothing but the
\* terminal event is published, and when the run has returned (ctx not being
\* cancelled) it is the first and only event and carries the Stats returned;
\* that Stats has TotalRequests = SuccessfulReqs = FailedReqs = 0,
\* Min = Max = Avg = 0, RequestsPerSec = 0, no status code and no percentile
\* key.
C12_EmptyRun ==
    (config.Requests = 0 /\ config.Concurrent >= 0) =>
        /\ tasks = EmptyBag
        /\ invoked = 0
        /\ wg = 0
        /\ results = <<>>
        /\ Terminals(Published) = Len(Published)
        /\ (RunReturned /\ ~ctxDone) => Published = <<completeMsg(stats)>>
        /\ pc \in {"send", "returned", "exit"} =>
              /\ stats.TotalRequests = 0
              /\ stats.SuccessfulReqs = 0
              /\ stats.FailedReqs = 0
              /\ stats.TotalBytes = 0
              /\ stats.MinResponseTime = 0
              /\ stats.MaxResponseTime = 0
              /\ stats.AvgResponseTime = 0
              /\ stats.RequestsPerSec.num = 0
              /\ DOMAIN stats.StatusCodes = {}
              /\ DOMAIN stats.Percentiles = {}

\* C12 witness: a run of 0 requests has returned, and the observer has
\* received its terminal event and nothing else.
C12_Witness ==
    /\ config.Requests = 0
    /\ config.Concurrent >= 1
    /\ pc = "exit"
    /\ ~ctxDone
    /\ received = <<completeMsg(stats)>>
    /\ stats.TotalRequests = 0
    /\ stats.TotalTime >= 1
    /\ DOMAIN stats.Percentiles = {}

\* calculateStats has returned the Stats of lt.results.
Reduced == pc \in {"send", "recalculated"}

\* The latencies of the Results rs, in the order of rs.
LatenciesOf(rs) == [k \in 1..Len(rs) |-> rs[k].ResponseTime]

\* The positions of rs whose Result has an error.
ErrorsOf(rs) == {k \in 1..Len(rs) : rs[k].Error}

\* The positions of rs whose Result has the status code sc.
WithStatus(rs, sc) == {k \in 1..Len(rs) : rs[k].StatusCode = sc}

\* The nearest-rank index of percentile p among n >= 1 sorted values:
\* rank = ceil(p * n / 100), clamped to [1, n], less one.
NearestRankIndex(n, p) ==
    LET rank == (p * n + 99) \div 100
    IN  (IF rank < 1 THEN 1 ELSE IF rank > n THEN n ELSE rank) - 1

\* C13. Nearest-rank percentiles: for a non-empty sink of n Results and every
\* p of 50, 90, 95, 99, Percentiles[p] is the element of the ascending
\* latencies at the 0-based index ceil(p * n / 100) - 1.
C13_NearestRankPercentiles ==
    (Reduced /\ results # <<>>) =>
        \A p \in {50, 90, 95, 99} :
            stats.Percentiles[p] =
                SortAscending(LatenciesOf(results))
                    [NearestRankIndex(Len(results), p) + 1]

C15_MinAvgMax ==
    (Reduced /\ results # <<>>) =>
        /\ stats.MinResponseTime <= stats.AvgResponseTime
        /\ stats.AvgResponseTime <= stats.MaxResponseTime

RECURSIVE HistogramTotal(_)
HistogramTotal(h) ==
    IF DOMAIN h = {} THEN 0
    ELSE LET sc == CHOOSE x \in DOMAIN h : TRUE
         IN  h[sc] + HistogramTotal([x \in DOMAIN h \ {sc} |-> h[x]])

\* C18. All-failure run: when each of the N >= 1 requests of a run failed
\* before reaching a server (status code 0, error set), the Stats the run
\* returns has FailedReqs = N, SuccessfulReqs = 0, TotalBytes = 0 and
\* StatusCodes = {0: N}; and the counts of the histogram of any returned
\* Stats sum to its TotalRequests.
C18_AllFailureRun ==
    RunReturned =>
        /\ HistogramTotal(stats.StatusCodes) = stats.TotalRequests
        /\ (/\ config.Requests >= 1
            /\ liveStats.failed = config.Requests
            /\ liveStats.statusCodes = (0 :> config.Requests)) =>
              /\ stats.FailedReqs = config.Requests
              /\ stats.SuccessfulReqs = 0
              /\ stats.TotalBytes = 0
              /\ stats.StatusCodes = (0 :> config.Requests)

\* C19. Single-request run: a run with Requests = 1 and Concurrent = 1 whose
\* one Result has no error, status 200, b bytes and latency t returns a
\* Stats with TotalRequests = 1, SuccessfulReqs = 1, FailedReqs = 0,
\* TotalBytes = b and every percentile equal to t.
C19_SingleRequestRun ==
    (/\ RunReturned
     /\ config.Requests = 1
     /\ config.Concurrent = 1
     /\ liveStats.successful = 1
     /\ liveStats.statusCodes = (200 :> 1)) =>
        /\ stats.TotalRequests = 1
        /\ stats.SuccessfulReqs = 1
        /\ stats.FailedReqs = 0
        /\ stats.TotalBytes = liveStats.totalBytes
        /\ \A p \in {50, 90, 95, 99} :
              stats.Percentiles[p] = liveStats.responseTimes[1]

\* C20. Fresh sink per run: lt.results is empty when a run starts, the
\* second run on the same LoadTester included, so that the Stats a run
\* returns has TotalRequests = Config.Requests.
C20_FreshSinkPerRun ==
    /\ pc = "start" => results = <<>>
    /\ RunReturned => stats.TotalRequests = config.Requests

\* C21. Outcome classification: makeRequest returns one Result such that
\* (a) when building or sending the request fails, StatusCode = 0, Error is
\* set and ContentSize = 0; (b) when the body cannot be read, StatusCode is
\* the status received, Error is set and ContentSize = 0; (c) otherwise
\* Error is nil, StatusCode is the status received and ContentSize the
\* length of the body; the latency is measured in every case. Hence in
\* every Result of the sink StatusCode = 0 implies Error, and
\* ContentSize > 0 implies no Error.
C21_OutcomeClassification ==
    /\ \A o \in SinkOutcomes :
          LET r == makeRequest(o)
          IN  /\ r.ResponseTime = o.latency
              /\ o.failed = "send" =>
                    (r.StatusCode = 0 /\ r.Error /\ r.ContentSize = 0)
              /\ o.failed = "read" =>
                    (r.StatusCode = o.status /\ r.Error /\ r.ContentSize = 0)
              /\ o.failed = "none" =>
                    (r.StatusCode = o.status /\ ~r.Error
                        /\ r.ContentSize = o.size)
    /\ \A k \in 1..Len(results) :
          /\ results[k].StatusCode = 0 => results[k].Error
          /\ results[k].ContentSize > 0 => ~results[k].Error

\* C21 witness: the sink holds a Result of each kind: a request that could
\* not be sent, a response whose body could not be read, and a response
\* read in full.
C21_Witness ==
    /\ Len(results) = 3
    /\ results[1] = [StatusCode |-> 0, ResponseTime |-> 1, ContentSize |-> 0,
                     Error |-> TRUE]
    /\ results[2] = [StatusCode |-> 200, ResponseTime |-> 1, ContentSize |-> 0,
                     Error |-> TRUE]
    /\ results[3] = [StatusCode |-> 500, ResponseTime |-> 2, ContentSize |-> 3,
                     Error |-> FALSE]
    /\ Reduced

\* The number of Results merged into the LiveStats of this run.
Merged == liveStats.successful + liveStats.failed

\* The number of Results appended to lt.results in this run (each earlier
\* run on the LoadTester appended Requests of them).
Appended == Len(results) - (run - 1) * config.Requests

\* The number of progress events published in this run.
ProgressPublished == Len(Published) - Terminals(Published)

\* The number of tasks of this run that have released their permit.
Released == i - semaphore

\* C22 as claimed. Step order of a task: append to the sink, then merge into
\* the LiveStats, then count under progressMu, then attempt to publish, all
\* before the permit is released: at any time no more Results are merged
\* than appended, no more counted than merged, no more progress events
\* published or permits released than Results counted.
C22_AppendMergeCountPublish ==
    /\ Merged <= Appended
    /\ completed <= Merged
    /\ ProgressPublished <= completed
    /\ Released <= completed

\* C22 as amended. Step order of a task: merge into the LiveStats, then
\* append to the sink, then count under progressMu, then attempt to publish,
\* all before the permit is released: the Results merged and not yet
\* appended are those of the tasks between the two steps, likewise the
\* Results appended and not yet counted, and no more progress events are
\* published or permits released than Results counted.
C22_MergeAppendCountPublish ==
    /\ Merged - Appended = TasksAt({"sinkLock", "sinkAppend"})
    /\ Appended - completed = TasksAt({"progressLock", "progressInc"})
    /\ ProgressPublished <= completed
    /\ completed - Released = TasksAt({"publish", "release"})
    /\ Merged = Len(liveStats.responseTimes)

\* C22 witness: one task has gone through all four steps and is about to
\* release its permit while another has merged its Result and not yet
\* appended it.
C22_Witness ==
    /\ TasksAt({"release"}) = 1
    /\ TasksAt({"sinkLock"}) = 1
    /\ Merged = 2
    /\ Appended = 1
    /\ completed = 1
    /\ ProgressPublished = 1
    /\ Released = 0

\* C23. Permit release on every path: the permits out are exactly those of
\* the tasks that have not yet run their deferred receive, one each,
\* whatever the Result of the request and whether the progress event was
\* published or given up; a permit is released only when the publish
\* attempt is over (so, without cancellation, no more permits are released
\* than progress events published); and when RunWithTUI returns every task
\* has released its permit and the pool holds none.
C23_PermitReleasedOnEveryPath ==
    /\ semaphore >= 0
    /\ semaphore = TasksAt(PermitPcs)
    /\ Released <= completed - TasksAt({"publish"})
    /\ ~ctxDone => Released <= ProgressPublished
    /\ RunReturned => (semaphore = 0 /\ Released = config.Requests)

\* C23 witness: a cancelled run has returned with no permit out; one of its
\* requests failed and the other did not, one task published its progress
\* event and the other gave it up.
C23_Witness ==
    /\ RunReturned
    /\ ctxDone
    /\ config.Requests = 2
    /\ liveStats.failed = 1
    /\ liveStats.successful = 1
    /\ completed = 2
    /\ ProgressPublished = 1
    /\ semaphore = 0
    /\ Released = 2

\* C24. Eager launch: whenever fewer than Requests tasks have been launched
\* and a permit is free, the dispatcher can take its next step at once (the
\* loop test with wg.Add, or the send on the semaphore and the go
\* statement), whatever the tasks launched before are doing: it waits for
\* one free permit only, never for a batch or a particular task to finish.
C24_EagerLaunch ==
    /\ (pc = "loop" /\ i < config.Requests) => ENABLED LoopTest
    /\ (pc = "acquire" /\ semaphore < config.Concurrent) => ENABLED Launch
    /\ pc = "acquire" => i < config.Requests

\* C24 witness: the dispatcher is at the semaphore send with a permit free
\* and can launch the second task while the first is still inside
\* makeRequest.
C24_Witness ==
    /\ pc = "acquire"
    /\ i = 1
    /\ config.Concurrent = 2
    /\ semaphore = 1
    /\ TasksAt({"request"}) = 1
    /\ ENABLED Launch

\* C25. No lost updates in the LiveStats: at most one task is inside the
\* critical section of liveStats.mu, and from the join barrier on the
\* LiveStats of the run has the successful and failed counts, the
\* totalBytes, the status-code histogram and the number of latencies of the
\* Stats the reducer computes from lt.results, with successful + failed =
\* Requests, histogram counts that sum to Requests and Requests latencies.
C25_NoLostLiveUpdates ==
    /\ TasksAt({"liveMerge"}) = (IF liveStatsMu THEN 1 ELSE 0)
    /\ pc \in {"send", "returned", "exit"} =>
          /\ Merged = config.Requests
          /\ HistogramTotal(liveStats.statusCodes) = config.Requests
          /\ Len(liveStats.responseTimes) = config.Requests
          /\ liveStats.successful = stats.SuccessfulReqs
          /\ liveStats.failed = stats.FailedReqs
          /\ liveStats.totalBytes = stats.TotalBytes
          /\ liveStats.statusCodes = stats.StatusCodes
          /\ Len(liveStats.responseTimes) = Len(stats.ResponseTimes)

\* The smallest and the largest element of a non-empty sequence of numbers.
MinOf(s) == CHOOSE x \in {s[k] : k \in 1..Len(s)} : \A k \in 1..Len(s) : x <= s[k]
MaxOf(s) == CHOOSE x \in {s[k] : k \in 1..Len(s)} : \A k \in 1..Len(s) : x >= s[k]

\* C26. Live min/max: after any non-empty sequence of merges, latencies of 0
\* included, minResponseTime is the smallest and maxResponseTime the largest
\* of the latencies merged so far.
C26_LiveMinMax ==
    liveStats.responseTimes # <<>> =>
        /\ liveStats.minResponseTime = MinOf(liveStats.responseTimes)
        /\ liveStats.maxResponseTime = MaxOf(liveStats.responseTimes)

\* C27. Final min/max: the Stats of a non-empty sink, whatever the order of
\* its Results and latencies of 0 included, has for MinResponseTime the
\* smallest and for MaxResponseTime the largest latency of all its Results,
\* failed ones too, and for AvgResponseTime the integer quotient of the sum
\* of the latencies by their number.
C27_FinalMinMaxAvg ==
    (Reduced /\ results # <<>>) =>
        /\ stats.MinResponseTime = MinOf(LatenciesOf(results))
        /\ stats.MaxResponseTime = MaxOf(LatenciesOf(results))
        /\ stats.AvgResponseTime =
              SumSeq(LatenciesOf(results)) \div Len(results)

\* The sum of ContentSize over the Results of rs that have no error.
RECURSIVE SuccessBytes(_)
SuccessBytes(rs) ==
    IF rs = <<>> THEN 0
    ELSE (IF Head(rs).Error THEN 0 ELSE Head(rs).ContentSize)
            + SuccessBytes(Tail(rs))

\* C28. Bytes over successes only: TotalBytes of the Stats, and totalBytes of
\* the LiveStats, is the sum of ContentSize over exactly the Results whose
\* Error is nil; a Result with an error adds nothing.
C28_BytesOverSuccesses ==
    /\ liveStats.totalBytes = SuccessBytes(results)
    /\ Reduced => stats.TotalBytes = SuccessBytes(results)

\* C28 witness: the Stats of a sink with an error-free 500, an error-free
\* 200 and a failed request counts the bytes of the first two.
C28_Witness ==
    /\ Reduced
    /\ Len(results) = 3
    /\ ~results[1].Error /\ results[1].StatusCode = 500
    /\ ~results[2].Error /\ results[2].StatusCode = 200
    /\ results[3].Error
    /\ stats.TotalBytes = results[1].ContentSize + results[2].ContentSize
    /\ stats.TotalBytes > 0
    /\ liveStats.totalBytes = stats.TotalBytes

\* The positions of rs whose Result has a status and an error (the body of
\* the response could not be read).
PartialsOf(rs) == {k \in ErrorsOf(rs) : rs[k].StatusCode # 0}

\* C29. Partial-response error: a Result with a non-zero status and an error
\* is counted in FailedReqs and not in SuccessfulReqs, adds nothing to
\* TotalBytes, and is counted in the histogram under its own status, not
\* under 0.
C29_PartialResponse ==
    Reduced =>
        /\ stats.FailedReqs =
              Cardinality(PartialsOf(results))
                  + Cardinality(WithStatus(results, 0))
        /\ stats.SuccessfulReqs + stats.FailedReqs = Len(results)
        /\ \A sc \in {0, 200, 500} :
              (IF sc \in DOMAIN stats.StatusCodes
               THEN stats.StatusCodes[sc] ELSE 0)
                  = Cardinality(WithStatus(results, sc))
        /\ (PartialsOf(results) = 1..Len(results) /\ results # <<>>) =>
              /\ stats.FailedReqs = Len(results)
              /\ stats.SuccessfulReqs = 0
              /\ stats.TotalBytes = 0
              /\ stats.StatusCodes = (200 :> Len(results))

\* C29 witness: the Stats of a sink that holds nothing but two responses
\* whose bodies could not be read.
C29_Witness ==
    /\ Reduced
    /\ Len(results) = 2
    /\ PartialsOf(results) = {1, 2}
    /\ stats.FailedReqs = 2
    /\ stats.SuccessfulReqs = 0
    /\ stats.TotalBytes = 0
    /\ stats.StatusCodes = (200 :> 2)

\* C30. No lock across I/O: each of liveStats.mu, lt.mu and progressMu is
\* held exactly while one task is inside the critical section it guards, so
\* no task holds a lock while its request is outstanding in makeRequest or
\* while it waits to publish on the update channel; and a task at
\* makeRequest can proceed whatever the locks: it has waited for nothing
\* but its permit.
C30_NoLockAcrossIO ==
    /\ TasksAt({"liveMerge"}) = (IF liveStatsMu THEN 1 ELSE 0)
    /\ TasksAt({"sinkAppend"}) = (IF mu THEN 1 ELSE 0)
    /\ TasksAt({"progressInc"}) = (IF progressMu THEN 1 ELSE 0)
    /\ TasksAt({"request", "publish"}) = BagCardinality(tasks) =>
          (~liveStatsMu /\ ~mu /\ ~progressMu)
    /\ \A e \in BagToSet(tasks) : e.pc = "request" => ENABLED MakeRequest(e)

\* C30 witness: a task waits to publish on the update channel, which is
\* full and which nobody reads, and none of the three locks is held.
C30_Witness ==
    /\ TasksAt({"publish"}) = 1
    /\ BagCardinality(tasks) = 1
    /\ Len(updateChan) = ChanCap
    /\ received = <<>>
    /\ ~ctxDone
    /\ ~liveStatsMu
    /\ ~mu
    /\ ~progressMu

\* The positions of the progress events among the events published.
ProgressPositions == {k \in 1..Len(Published) : Published[k].type = "progressMsg"}

\* The completed counts carried by the progress events published.
ProgressCounts == {Published[k].completed : k \in ProgressPositions}

\* C31. Completed counter: the counter only grows, by 1 at a time, within a
\* run, and equals the number of tasks that have counted themselves (no
\* increment is lost); the counts carried by the progress events of the run,
\* published or still to publish, are post-increment values, pairwise
\* distinct, and when a run without cancellation has returned they are
\* exactly 1..Requests.
C31_CompletedCounter ==
    /\ [](/\ completed = Released + TasksAt({"publish", "release"})
          /\ ProgressCounts \subseteq 1..completed
          /\ Cardinality(ProgressCounts) = Cardinality(ProgressPositions)
          /\ \A e \in BagToSet(tasks) :
                e.pc = "publish" =>
                    /\ tasks[e] = 1
                    /\ e.currentCompleted \in (1..completed) \ ProgressCounts
          /\ (RunReturned /\ ~ctxDone) =>
                ProgressCounts = 1..config.Requests)
    /\ [][\/ completed' = completed
          \/ completed' = completed + 1
          \/ run' # run]_vars

\* C31 witness: a run of two requests without cancellation has returned;
\* the task that counted second published first, and the counts are 1 and 2
\* all the same.
C31_Witness ==
    /\ RunReturned
    /\ ~ctxDone
    /\ config.Requests = 2
    /\ Len(Published) = 3
    /\ Published[1].completed = 2
    /\ Published[2].completed = 1
    /\ completed = 2

\* C32. Progress order on the channel: the progress events are in the
\* channel in increasing order of their completed count, so that a consumer
\* that keeps the count last received never sees it decrease, and the last
\* progress event it receives carries completed = Requests.
C32_ProgressInOrder ==
    /\ \A j, k \in ProgressPositions :
          j < k => Published[j].completed < Published[k].completed
    /\ (ObserverDone /\ ~ctxDone /\ config.Requests >= 1) =>
          received[config.Requests].completed = config.Requests

\* C33. Cross-aggregate ordering: in every state of a run the completed
\* counter is at most the number of Results in lt.results and at most the
\* number of Results merged into the LiveStats, both of these are at most
\* the number of tasks launched so far, which is at most Requests; and
\* lt.results is append-only: a step leaves it as it is or adds one Result
\* at its end.
C33_CrossAggregateOrdering ==
    /\ [](/\ completed <= Len(results)
          /\ completed <= Merged
          /\ Len(results) <= i
          /\ Merged <= i
          /\ i <= config.Requests)
    /\ [][\/ results' = results
          \/ /\ Len(results') = Len(results) + 1
             /\ SubSeq(results', 1, Len(results)) = results]_vars

\* C34. No send after close: the update channel is closed only when
\* RunWithTUI has returned, which is when every task has ended; while it is
\* closed there is no task left and the dispatcher is past its send, and no
\* step adds a message to it, with or without cancellation.
C34_NoSendAfterClose ==
    /\ [](closed =>
            /\ pc = "exit"
            /\ tasks = EmptyBag
            /\ wg = 0
            /\ ~ENABLED SendComplete)
    /\ [][(~closed /\ closed') => (pc = "returned" /\ tasks = EmptyBag)]_vars
    /\ [][(closed /\ closed') => Len(updateChan') <= Len(updateChan)]_vars

\* C34 witness: the channel of a cancelled run of two requests is closed;
\* both tasks have counted themselves and one of them gave up its progress
\* event.
C34_Witness ==
    /\ closed
    /\ ctxDone
    /\ pc = "exit"
    /\ completed = 2
    /\ ProgressPublished = 1
    /\ Terminals(Published) = 1
    /\ tasks = EmptyBag

\* C35. Cancellation does not shrink the run: once ctx is cancelled (with a
\* Concurrent that lets the dispatcher launch), the dispatcher still
\* launches every remaining task and every task still calls makeRequest and
\* stores its Result before its publish attempt; the run returns with
\* Requests Results in the sink and TotalRequests = Requests. Only events
\* may be missing.
C35_CancelDoesNotShrinkRun ==
    /\ (ctxDone /\ config.Concurrent >= 1)
          ~> (/\ RunReturned
              /\ i = config.Requests
              /\ invoked = config.Requests
              /\ Len(results) = config.Requests
              /\ stats.TotalRequests = config.Requests)
    /\ [](ctxDone =>
            /\ completed <= Len(results)
            /\ ProgressPublished + TasksAt({"publish"}) <= completed
            /\ pc \in {"wait", "calc", "send", "returned", "exit"}
                  => i = config.Requests
            /\ RunReturned =>
                  /\ Len(results) = config.Requests
                  /\ stats.TotalRequests = config.Requests)

\* C35 witness: ctx was cancelled and the run of MaxRequests requests has
\* returned with MaxRequests Results stored and counted in its Stats,
\* though it published no event at all.
C35_Witness ==
    /\ ctxDone
    /\ RunReturned
    /\ config.Requests = MaxRequests
    /\ invoked = MaxRequests
    /\ Len(results) = MaxRequests
    /\ stats.TotalRequests = MaxRequests
    /\ Published = <<>>

\* C36. Percentile index safety: for a sink of n >= 1 Results and each p of
\* 50, 90, 95, 99 the index n * p / 100 lies in 0..n-1 (for the sinks reduced
\* and for every n up to MaxIndexedLen); the percentile reported is the
\* sorted latency at that index, is the latency of some Result of the sink,
\* and lies between the smallest and the largest latency of the sink.
C36_PercentileIndexSafety ==
    /\ \A n \in 1..MaxIndexedLen : \A p \in {50, 90, 95, 99} :
          PercentileIndex(n, p) \in 0..(n - 1)
    /\ (Reduced /\ results # <<>>) =>
          LET n == Len(results)
              lat == LatenciesOf(results)
          IN  /\ Len(stats.ResponseTimes) = n
              /\ DOMAIN stats.Percentiles = {50, 90, 95, 99}
              /\ \A p \in {50, 90, 95, 99} :
                    /\ PercentileIndex(n, p) \in 0..(n - 1)
                    /\ stats.Percentiles[p]
                          = SortAscending(lat)[PercentileIndex(n, p) + 1]
                    /\ \E k \in 1..n :
                          results[k].ResponseTime = stats.Percentiles[p]
                    /\ MinOf(lat) <= stats.Percentiles[p]
                    /\ stats.Percentiles[p] <= MaxOf(lat)

\* C36 witness: a sink of three Results with the latencies 2, 0, 1 in that
\* order has been reduced; the median read at index 1 is 1 and the 99th
\* percentile read at index 2 is 2.
C36_Witness ==
    /\ Reduced
    /\ LatenciesOf(results) = <<2, 0, 1>>
    /\ PercentileIndex(Len(results), 50) = 1
    /\ PercentileIndex(Len(results), 99) = 2
    /\ stats.Percentiles[50] = 1
    /\ stats.Percentiles[99] = 2

\* C37. TUI delivery: the model keeps receiving the events of the update
\* channel until it is closed: with Requests >= 1 (and a Concurrent that
\* lets the run launch) a running model eventually gets the completeMsg
\* (state "completed" with non-nil stats), the goroutine that runs
\* RunWithTUI eventually returns instead of staying blocked on a full
\* channel, and every event published is eventually taken.
C37_TUIDelivery ==
    /\ (model.state = "running" /\ config.Requests >= 1 /\ config.Concurrent >= 1)
          ~> (model.state = "completed" /\ model.stats # <<>>)
    /\ (model.state = "running" /\ config.Requests >= 1 /\ config.Concurrent >= 1)
          ~> RunReturned
    /\ (updateChan # <<>>) ~> (updateChan = <<>>)

\* The place of a state of the model in the order ready, running, completed.
StateRank(st) ==
    CASE st = "ready" -> 0
      [] st = "running" -> 1
      [] st = "completed" -> 2

\* C38. TUI state machine: under any sequence of messages model.state is
\* one of ready, running, completed and never moves back to an earlier one;
\* a run is started only by a startTestMsg taken in state "ready", which
\* moves the model to "running", so one model starts at most one run.
C38_TUIStateMachine ==
    /\ [](/\ model.state \in {"ready", "running", "completed"}
          /\ run <= 1
          /\ run = 1 => model.state # "ready")
    /\ [][StateRank(model'.state) >= StateRank(model.state)]_vars
    /\ [][run' # run =>
            /\ run' = run + 1
            /\ model.state = "ready"
            /\ model'.state = "running"
            /\ received' = Append(received, startTestMsg)]_vars

\* C38 witness: the model took a startTestMsg, a completeMsg and a second
\* startTestMsg; it is "completed" and has started one run.
C38_Witness ==
    /\ Len(received) = 3
    /\ received[1] = startTestMsg
    /\ received[2].type = "completeMsg"
    /\ received[3] = startTestMsg
    /\ model.state = "completed"
    /\ model.stats # <<>>
    /\ run = 1

====
